---- MODULE Spec2Model ----
(***************************************************************************)
(* A model of match.py: the duplicate-file matcher.                        *)
(*                                                                         *)
(* Paths are sequences of one-character strings.  A file's content is the  *)
(* sequence of chunks that successive fileh.read(4096) calls return: every *)
(* chunk but the last is a full block, the last may be shorter.  xxh64 and *)
(* bytes.__hash__ are library hashes; they are modelled by small,          *)
(* non-injective functions so that collisions are reachable.  The input    *)
(* paths are byte strings, as main reads them from standard input.         *)
(***************************************************************************)
EXTENDS Naturals, Sequences, FiniteSets, TLC

VARIABLES
    argv,       \* argp.files: the input path list
    opts,       \* argp: multiprocessing, name_match, delete_prefix, delete
    fs,         \* the file system: path -> [kind, data]
    pc,         \* position of main / of the coordinator
    fs0,        \* the file system when main started
    files_all,  \* main's files_all: candidates in input order (ids = argv index)
    files,      \* main's set(files_all), in its iteration order
    statsz,     \* _File.stat.st_size of each candidate, fixed at construction
    memo,       \* _File._stepxxhash_map / _xxhashhex of the coordinator's objects
    stream,     \* the not yet consumed part of _filter(_pairs(files))
    cur,        \* sequential mode: the comparison main is inside
    workers,    \* pool mode: the tasks the busy workers are in
    outq,       \* pool mode: results in completion order, not yet consumed
    emitted,    \* the pairs _matches has yielded, in order
    stdout,     \* records written to sys.stdout.buffer
    unlinked,   \* paths on which os.unlink succeeded
    lastcmp,    \* the last completed call of _File.__eq__ and what it did
    seqOut,     \* the pairs an earlier sequential pass over the same set yielded
    log         \* history: calls of _eq per pair, hashing traversals per
                \* candidate, the exception that ended main

vars == <<argv, opts, fs, fs0, pc, files_all, files, statsz, memo, stream, cur,
          workers, outq, emitted, stdout, unlinked, lastcmp, seqOut, log>>

---------------------------------------------------------------------------
(* Bounds of the model *)

NumArgs == 3
MaxChunks == 2
PartLen == 7
DigestMod == 5
HashMod == 8
PoolMax == 2

(* fileh.read(4096) *)
BlockSize == 4096

---------------------------------------------------------------------------
(* Byte strings *)

Code(c) == CASE c = "/" -> 0 [] c = "d" -> 1 [] c = "e" -> 2
             [] c = "a" -> 1 [] c = "b" -> 2 [] OTHER -> 3

RECURSIVE SumCodes(_)
SumCodes(s) == IF s = <<>> THEN 0 ELSE Code(Head(s)) + SumCodes(Tail(s))

(* bytes.__hash__: a library hash of the raw string, not injective *)
bytes_hash(s) == SumCodes(s) % HashMod

(* bytes.startswith *)
startswith(s, prefix) ==
    /\ Len(prefix) <= Len(s)
    /\ SubSeq(s, 1, Len(prefix)) = prefix

RECURSIVE LastSlash(_, _)
LastSlash(s, i) == IF i = 0 THEN 0
                   ELSE IF s[i] = "/" THEN i ELSE LastSlash(s, i - 1)

(* os.path.basename *)
basename(s) == SubSeq(s, LastSlash(s, Len(s)) + 1, Len(s))

PathA == <<"d", "/", "a">>
PathB == <<"d", "/", "b">>
PathC == <<"e", "/", "a">>
Paths == {PathA, PathB, PathC}

Prefixes == {<<"d", "/">>, <<"e">>}
NoPrefix == <<>>

---------------------------------------------------------------------------
(* File contents *)

FullChunk(d) == [len |-> BlockSize, data |-> d]
PartChunk(d) == [len |-> PartLen, data |-> d]
FullChunks == {FullChunk(d) : d \in 0..1}
AnyChunks == FullChunks \cup {PartChunk(d) : d \in 0..1}

RECURSIVE SeqsOf(_, _)
SeqsOf(S, n) == IF n = 0 THEN {<<>>}
                ELSE {Append(s, x) : s \in SeqsOf(S, n - 1), x \in S}

(* every content of at most MaxChunks chunks *)
Contents == {<<>>} \cup
    UNION {{Append(s, x) : s \in SeqsOf(FullChunks, n - 1), x \in AnyChunks}
           : n \in 1..MaxChunks}

RECURSIVE ByteLen(_)
ByteLen(data) == IF data = <<>> THEN 0 ELSE Head(data).len + ByteLen(Tail(data))

RegFile(data) == [kind |-> "file", data |-> data]
NoFile == [kind |-> "none", data |-> <<>>]
Denied == [kind |-> "denied", data |-> <<>>]

(* os.stat: the size, or an OSError *)
os_stat(f) == IF f.kind = "file" THEN [ok |-> TRUE, size |-> ByteLen(f.data), err |-> "none"]
              ELSE IF f.kind = "none" THEN [ok |-> FALSE, size |-> 0, err |-> "FileNotFoundError"]
              ELSE [ok |-> FALSE, size |-> 0, err |-> "PermissionError"]

---------------------------------------------------------------------------
(* xxhash.xxh64 *)

xxh_update(h, chunk) ==
    (h + chunk.data + 1 + (IF chunk.len = BlockSize THEN 0 ELSE 2)) % DigestMod
digest(h) == [enc |-> "raw", h |-> h]
hexdigest(h) == [enc |-> "hex", h |-> h]
NoDigest == [enc |-> "none", h |-> 0]

(* exponential(initial): the k-th value it yields *)
RECURSIVE exponential(_, _)
exponential(initial, k) == IF k = 1 THEN initial
                           ELSE exponential(initial, k - 1) * exponential(initial, k - 1)

Step(iteration, dg, final) ==
    [iteration |-> iteration, digest |-> dg, stepfunc |-> "exponential", final |-> final]

(* _hash: the whole file's hexdigest *)
RECURSIVE hash_fold(_, _)
hash_fold(h, data) == IF data = <<>> THEN h
                      ELSE hash_fold(xxh_update(h, Head(data)), Tail(data))
hash_whole(data) == hexdigest(hash_fold(0, data))

(* _stephash with the default stepfunc: the records it yields, each with the
   number of chunks read from the file when it is yielded *)
RECURSIVE stephash_loop(_, _, _, _, _)
stephash_loop(data, iteration, h, k, out) ==
    IF iteration = Len(data)
    THEN Append(out, [step |-> Step(exponential(1, k), hexdigest(h), 1), pos |-> iteration])
    ELSE LET h2 == xxh_update(h, data[iteration + 1])
             it == iteration + 1
             step == exponential(1, k)
         IN IF it >= step
            THEN stephash_loop(data, it, h2, k + 1,
                     Append(out, [step |-> Step(step, digest(h2), 0), pos |-> it]))
            ELSE stephash_loop(data, it, h2, k, out)
stephash(data) == stephash_loop(data, 0, 0, 1, <<>>)

---------------------------------------------------------------------------
(* _File *)

NoMemo == [mapset |-> FALSE, map |-> <<>>, hexset |-> FALSE, hex |-> NoDigest]

StepsOf(gen) == [i \in 1..Len(gen) |-> gen[i].step]

(* _File._stepxxhash: the generator a fresh access of the property returns.
   With no memoized map it opens the file and runs _stephash; otherwise it
   replays the memoized list without touching the file. *)
stepxxhash(m, f) ==
    IF m.mapset
    THEN [err |-> "none", fresh |-> FALSE,
          gen |-> [i \in 1..Len(m.map) |-> [step |-> m.map[i], pos |-> 0]]]
    ELSE IF f.kind = "file"
    THEN [err |-> "none", fresh |-> TRUE, gen |-> stephash(f.data)]
    ELSE [err |-> os_stat(f).err, fresh |-> TRUE, gen |-> <<>>]

(* what exhausting a fresh generator memoizes (lines 104-105) *)
memoize(m, g) ==
    IF g.fresh
    THEN [mapset |-> TRUE, map |-> StepsOf(g.gen),
          hexset |-> TRUE, hex |-> g.gen[Len(g.gen)].step.digest]
    ELSE m

(* chunks a generator has read once `pulled` records were taken from it *)
gen_reads(g, pulled) ==
    IF g.fresh /\ pulled > 0 /\ g.gen # <<>>
    THEN g.gen[IF pulled > Len(g.gen) THEN Len(g.gen) ELSE pulled].pos
    ELSE 0

(* _File._xxhash *)
xxhash_prop(m, f) ==
    IF m.hexset THEN [err |-> "none", hex |-> m.hex, whole |-> FALSE]
    ELSE IF f.kind = "file" THEN [err |-> "none", hex |-> hash_whole(f.data), whole |-> TRUE]
    ELSE [err |-> os_stat(f).err, hex |-> NoDigest, whole |-> TRUE]

(* filecmp.cmp(f1, f2, shallow=False): stats both, then compares the bytes *)
filecmp_cmp(fa, fb) ==
    IF ~os_stat(fa).ok THEN os_stat(fa).err
    ELSE IF ~os_stat(fb).ok THEN os_stat(fb).err
    ELSE IF os_stat(fa).size # os_stat(fb).size THEN "False"
    ELSE IF fa.data = fb.data THEN "True" ELSE "False"

(* the while loop of __eq__ (lines 126-141), from round r on *)
RECURSIVE eq_loop(_, _, _, _, _)
eq_loop(La, Lb, r, local_step, other_step) ==
    LET local_stop == r > Len(La)
        other_stop == r > Len(Lb)
        ls == IF local_stop THEN local_step ELSE La[r].step
        os == IF other_stop THEN other_step ELSE Lb[r].step
    IN IF local_stop # other_stop
       THEN [out |-> "AssertionError", round |-> r, local_step |-> ls, other_step |-> os]
       ELSE IF ls.stepfunc # os.stepfunc \/ ls.iteration # os.iteration
       THEN [out |-> "AssertionError", round |-> r, local_step |-> ls, other_step |-> os]
       ELSE IF local_stop
       THEN [out |-> "break", round |-> r, local_step |-> ls, other_step |-> os]
       ELSE eq_loop(La, Lb, r + 1, ls, os)

HashPhaseResult(out, ma, mb, ra, rb, oa, ob, ls, os) ==
    [out |-> out, ma |-> ma, mb |-> mb, ra |-> ra, rb |-> rb,
     opena |-> oa, openb |-> ob, local_step |-> ls, other_step |-> os]

NoStep == Step(0, NoDigest, 0)

Min(x, y) == IF x < y THEN x ELSE y

(* the state of both candidates when the loop ended in round l.round: a
   generator that raised StopIteration has memoized, and each fresh generator
   has read the file up to the last record taken from it *)
eq_hash_end(ma, mb, ga, gb, l) ==
    HashPhaseResult(l.out,
        IF l.round > Len(ga.gen) THEN memoize(ma, ga) ELSE ma,
        IF l.round > Len(gb.gen) THEN memoize(mb, gb) ELSE mb,
        gen_reads(ga, Min(l.round, Len(ga.gen))),
        gen_reads(gb, Min(l.round, Len(gb.gen))),
        ga.fresh, gb.fresh, l.local_step, l.other_step)

(* lines 123-144: the first next() of either generator opens its file *)
eq_hash_gens(ma, mb, ga, gb) ==
    IF ga.err # "none"
    THEN HashPhaseResult(ga.err, ma, mb, 0, 0, FALSE, FALSE, NoStep, NoStep)
    ELSE IF gb.err # "none"
    THEN HashPhaseResult(gb.err, ma, mb, gen_reads(ga, 1), 0,
                         ga.fresh, FALSE, NoStep, NoStep)
    ELSE eq_hash_end(ma, mb, ga, gb, eq_loop(ga.gen, gb.gen, 1, NoStep, NoStep))

(* __eq__ without the size comparison of lines 119-120 *)
eq_hash_unsized(sa, sb, ma, mb, fa, fb) ==
    eq_hash_gens(ma, mb, stepxxhash(ma, fa), stepxxhash(mb, fb))

(* __eq__ up to the end of the lock-step loop (lines 119-144).
   sa, sb: the memoized sizes; ma, mb: the memo fields; fa, fb: the files now.
   out: "False", "break" (go on to the digest comparisons) or the exception. *)
eq_hash(sa, sb, ma, mb, fa, fb) ==
    IF sa # sb
    THEN HashPhaseResult("False", ma, mb, 0, 0, FALSE, FALSE, NoStep, NoStep)
    ELSE eq_hash_gens(ma, mb, stepxxhash(ma, fa), stepxxhash(mb, fb))

CmpResult(ret, ma, mb, cmp) == [ret |-> ret, ma |-> ma, mb |-> mb, cmp |-> cmp]

set_hex(m, x) == IF x.err = "none" /\ x.whole
                 THEN [m EXCEPT !.hexset = TRUE, !.hex = x.hex] ELSE m

(* lines 149-152 with the byte comparison dropped: equal digests mean equal *)
eq_cmp_hex_trusting(hp, xa, xb, fa, fb) ==
    IF xa.err # "none" THEN CmpResult(xa.err, hp.ma, hp.mb, FALSE)
    ELSE IF xb.err # "none" THEN CmpResult(xb.err, set_hex(hp.ma, xa), hp.mb, FALSE)
    ELSE CmpResult(IF xa.hex # xb.hex THEN "False" ELSE "True",
                   set_hex(hp.ma, xa), set_hex(hp.mb, xb), FALSE)

(* lines 149-152, with xa = self._xxhash and xb = other._xxhash *)
eq_cmp_hex(hp, xa, xb, fa, fb) ==
    IF xa.err # "none" THEN CmpResult(xa.err, hp.ma, hp.mb, FALSE)
    ELSE IF xb.err # "none" THEN CmpResult(xb.err, set_hex(hp.ma, xa), hp.mb, FALSE)
    ELSE IF xa.hex # xb.hex
    THEN CmpResult("False", set_hex(hp.ma, xa), set_hex(hp.mb, xb), FALSE)
    ELSE CmpResult(filecmp_cmp(fa, fb), set_hex(hp.ma, xa), set_hex(hp.mb, xb), TRUE)

(* __eq__ after the loop (lines 146-152): the result and what it touched *)
eq_cmp(hp, fa, fb) ==
    IF hp.local_step.digest # hp.other_step.digest
    THEN CmpResult("False", hp.ma, hp.mb, FALSE)
    ELSE eq_cmp_hex(hp, xxhash_prop(hp.ma, fa), xxhash_prop(hp.mb, fb), fa, fb)

(* what one call of __eq__ returned and did *)
EqResult(ret, ma, mb, ra, rb, oa, ob, cmp) ==
    [ret |-> ret, ma |-> ma, mb |-> mb, ra |-> ra, rb |-> rb,
     opena |-> oa, openb |-> ob, cmp |-> cmp]

eq_join(hp, c) ==
    EqResult(c.ret, c.ma, c.mb, hp.ra, hp.rb, hp.opena, hp.openb, c.cmp)

eq_after_hash(hp, fa, fb) ==
    IF hp.out # "break"
    THEN EqResult(hp.out, hp.ma, hp.mb, hp.ra, hp.rb, hp.opena, hp.openb, FALSE)
    ELSE eq_join(hp, eq_cmp(hp, fa, fb))

(* _File.__eq__ with no interleaved change of the files *)
File_eq(sa, sb, ma, mb, fa, fb) ==
    eq_after_hash(eq_hash(sa, sb, ma, mb, fa, fb), fa, fb)

---------------------------------------------------------------------------
(* main: resolution and the candidate set *)

Ids == DOMAIN argv
file(i) == argv[i]

(* a resolution loop that gives up at the first path whose stat fails *)
RECURSIVE resolve_loop_fatal(_, _)
resolve_loop_fatal(i, acc) ==
    IF i > Len(argv) THEN acc
    ELSE IF os_stat(fs[argv[i]]).ok
         THEN resolve_loop_fatal(i + 1, Append(acc, i))
         ELSE acc

(* lines 227-234: the candidates whose _File(...) did not raise OSError *)
RECURSIVE resolve_loop(_, _)
resolve_loop(i, acc) ==
    IF i > Len(argv) THEN acc
    ELSE IF os_stat(fs[argv[i]]).ok
         THEN resolve_loop(i + 1, Append(acc, i))
         ELSE resolve_loop(i + 1, acc)

(* _File.__hash__ *)
File_hash(i) == bytes_hash(file(i))

(* set.add(x): x is compared, by ==, with the members whose hash equals its
   own, in insertion order, until one is equal *)
RECURSIVE set_probe(_, _, _, _)
set_probe_eq(x, kept, k, m, r) ==
    IF r.ret = "True"
    THEN [found |-> TRUE, err |-> "none", memo |-> [m EXCEPT ![kept[k]] = r.ma, ![x] = r.mb]]
    ELSE IF r.ret = "False"
    THEN set_probe(x, kept, k + 1, [m EXCEPT ![kept[k]] = r.ma, ![x] = r.mb])
    ELSE [found |-> FALSE, err |-> r.ret, memo |-> [m EXCEPT ![kept[k]] = r.ma, ![x] = r.mb]]
set_probe(x, kept, k, m) ==
    IF k > Len(kept) THEN [found |-> FALSE, err |-> "none", memo |-> m]
    ELSE IF File_hash(kept[k]) # File_hash(x) THEN set_probe(x, kept, k + 1, m)
    ELSE set_probe_eq(x, kept, k, m,
             File_eq(statsz[kept[k]], statsz[x], m[kept[k]], m[x],
                     fs[file(kept[k])], fs[file(x)]))

(* set(files_all), line 238 *)
RECURSIVE set_build(_, _, _)
set_add(rest, kept, p) ==
    IF p.err # "none" THEN [kept |-> kept, err |-> p.err, memo |-> p.memo]
    ELSE set_build(Tail(rest), IF p.found THEN kept ELSE Append(kept, Head(rest)), p.memo)
set_build(rest, kept, m) ==
    IF rest = <<>> THEN [kept |-> kept, err |-> "none", memo |-> m]
    ELSE set_add(rest, kept, set_probe(Head(rest), kept, 1, m))

Range(s) == {s[i] : i \in DOMAIN s}
Orders(s) == {o \in [1..Len(s) -> Range(s)] : Range(o) = Range(s)}

(* _pairs: itertools.combinations(files, 2) *)
RECURSIVE pairs_from(_, _, _)
pairs_from(fl, i, j) ==
    IF i >= Len(fl) THEN <<>>
    ELSE IF j > Len(fl) THEN pairs_from(fl, i + 1, i + 2)
    ELSE <<(<<fl[i], fl[j]>>)>> \o pairs_from(fl, i, j + 1)
(* combinations with replacement: a candidate is also paired with itself *)
pairs_with_self(fl) == pairs_from(fl, 1, 1)

pairs(fl) == pairs_from(fl, 1, 2)

(* _File.name *)
File_name(i) == basename(file(i))

(* a filter that compares whole paths where _filter compares basenames *)
filter_keep_path(pair, name_match) == ~(name_match /\ file(pair[1]) # file(pair[2]))

(* _filter *)
filter_keep(pair, name_match) == ~(name_match /\ File_name(pair[1]) # File_name(pair[2]))
filter(ps, name_match) == SelectSeq(ps, LAMBDA pair : filter_keep(pair, name_match))

---------------------------------------------------------------------------
(* The deletion policy *)

World(f, out, unl) == [fs |-> f, stdout |-> out, unlinked |-> unl]

(* _unlink_if_prefix_partial without the test of the other side *)
unlink_partial_one_sided(delete_prefix, delete, left, right, w) ==
    IF startswith(left, delete_prefix)
    THEN [ret |-> TRUE,
          w |-> World(IF delete /\ w.fs[left].kind = "file"
                      THEN [w.fs EXCEPT ![left] = NoFile] ELSE w.fs,
                      Append(w.stdout, [kind |-> "unlink", left |-> left, right |-> <<>>]),
                      IF delete /\ w.fs[left].kind = "file"
                      THEN Append(w.unlinked, left) ELSE w.unlinked)]
    ELSE [ret |-> FALSE, w |-> w]

(* _unlink_if_prefix_partial that, finding `left` gone, unlinks `right` *)
unlink_partial_other(delete_prefix, delete, left, right, w) ==
    IF startswith(left, delete_prefix) /\ ~startswith(right, delete_prefix)
    THEN [ret |-> TRUE,
          w |-> World(IF ~delete THEN w.fs
                      ELSE IF w.fs[left].kind = "file" THEN [w.fs EXCEPT ![left] = NoFile]
                      ELSE [w.fs EXCEPT ![right] = NoFile],
                      Append(w.stdout, [kind |-> "unlink", left |-> left, right |-> <<>>]),
                      IF delete /\ w.fs[left].kind = "file"
                      THEN Append(w.unlinked, left) ELSE w.unlinked)]
    ELSE [ret |-> FALSE, w |-> w]

(* _unlink_if_prefix_partial that unlinks without looking at `delete` *)
unlink_partial_unasked(delete_prefix, delete, left, right, w) ==
    IF startswith(left, delete_prefix) /\ ~startswith(right, delete_prefix)
    THEN [ret |-> TRUE,
          w |-> World(IF w.fs[left].kind = "file"
                      THEN [w.fs EXCEPT ![left] = NoFile] ELSE w.fs,
                      Append(w.stdout, [kind |-> "unlink", left |-> left, right |-> <<>>]),
                      IF w.fs[left].kind = "file"
                      THEN Append(w.unlinked, left) ELSE w.unlinked)]
    ELSE [ret |-> FALSE, w |-> w]

(* _unlink_if_prefix_partial, lines 197-206: the value returned and the world after *)
unlink_if_prefix_partial(delete_prefix, delete, left, right, w) ==
    IF startswith(left, delete_prefix) /\ ~startswith(right, delete_prefix)
    THEN [ret |-> TRUE,
          w |-> World(IF delete /\ w.fs[left].kind = "file"
                      THEN [w.fs EXCEPT ![left] = NoFile] ELSE w.fs,
                      Append(w.stdout, [kind |-> "unlink", left |-> left, right |-> <<>>]),
                      IF delete /\ w.fs[left].kind = "file"
                      THEN Append(w.unlinked, left) ELSE w.unlinked)]
    ELSE [ret |-> FALSE, w |-> w]

(* _unlink_if_prefix, lines 208-213: `flush or ...` skips the second call
   when the first returned True *)
unlink_second(delete_prefix, delete, match, first) ==
    IF first.ret THEN first.w
    ELSE unlink_if_prefix_partial(delete_prefix, delete,
                                  file(match[2]), file(match[1]), first.w).w
unlink_if_prefix(delete_prefix, delete, match, w) ==
    unlink_second(delete_prefix, delete, match,
                  unlink_if_prefix_partial(delete_prefix, delete,
                                           file(match[1]), file(match[2]), w))

(* the body of main's loop over the matches, lines 255-268 *)
main_body(match, w) ==
    IF opts.delete_prefix # NoPrefix
    THEN unlink_if_prefix(opts.delete_prefix, opts.delete, match, w)
    ELSE World(w.fs,
               Append(w.stdout, [kind |-> "pair", left |-> file(match[1]),
                                 right |-> file(match[2])]),
               w.unlinked)

---------------------------------------------------------------------------
(* _eq and _matches *)

(* an _eq that catches every exception *)
eq_equal_swallowing(ret) == IF ret \in {"True", "False"} THEN ret ELSE "None"

(* _eq, lines 163-169: FileNotFoundError leaves equal at None; any other
   exception propagates *)
eq_equal(ret) == IF ret = "FileNotFoundError" THEN "None" ELSE ret
IsException(ret) == ret \notin {"True", "False", "None"}

(* Python's truth value of the tuple (pair, equal) and of equal itself *)
truth_tuple(t) == Len(t) # 0
truth_equal(equal) == equal = "True"

(* line 177: `if not _eq(pair): continue` tests the tuple _eq returns *)
seq_yields(pair, equal) == truth_tuple(<<pair, equal>>)
(* line 186: `if not result[1]: continue` *)
pool_yields(pair, equal) == truth_equal(equal)

NoHP == HashPhaseResult("none", NoMemo, NoMemo, 0, 0, FALSE, FALSE, NoStep, NoStep)
Idle == [busy |-> FALSE, pair |-> <<0, 0>>, hp |-> NoHP]
Busy(pair, hp) == [busy |-> TRUE, pair |-> pair, hp |-> hp]
Task(pair, hp) == [pair |-> pair, hp |-> hp]
NoCmp == [set |-> FALSE, a |-> 0, b |-> 0,
          res |-> EqResult("none", NoMemo, NoMemo, 0, 0, FALSE, FALSE, FALSE),
          ma0 |-> NoMemo, mb0 |-> NoMemo]

HashOf(pair, m) ==
    eq_hash(statsz[pair[1]], statsz[pair[2]], m[pair[1]], m[pair[2]],
            fs[file(pair[1])], fs[file(pair[2])])

SetWorld(w) == fs' = w.fs /\ stdout' = w.stdout /\ unlinked' = w.unlinked

(* _matches yields `pair` and main runs its loop body on it *)
Yield(pair, equal) ==
    /\ emitted' = Append(emitted, [pair |-> pair, equal |-> equal])
    /\ SetWorld(main_body(pair, World(fs, stdout, unlinked)))

Skip == UNCHANGED <<emitted, fs, stdout, unlinked>>

(* the history: one more hashing traversal of the sides of `pair` whose file
   a fresh _stephash generator opened; one more completed call of _eq(pair);
   the exception that left main *)
NoLog == [evals |-> [p \in (1..NumArgs) \X (1..NumArgs) |-> 0],
          reads |-> [i \in 1..NumArgs |-> 0],
          exc |-> "none"]
LogOpen(l, pair, oa, ob) ==
    [l EXCEPT !.reads = [i \in DOMAIN l.reads |->
        l.reads[i] + (IF (i = pair[1] /\ oa) \/ (i = pair[2] /\ ob) THEN 1 ELSE 0)]]
LogEval(l, pair) == [l EXCEPT !.evals[pair] = @ + 1]
LogExc(l, ret) == [l EXCEPT !.exc = IF IsException(eq_equal(ret)) THEN ret ELSE @]

(* sequential mode: what follows the return of _eq(pair) *)
SeqAfterEq(pair, ret) ==
    IF IsException(eq_equal(ret))
    THEN pc' = "crashed" /\ Skip
    ELSE /\ pc' = pc
         /\ IF seq_yields(pair, eq_equal(ret)) THEN Yield(pair, eq_equal(ret)) ELSE Skip

(* main, lines 227-236 *)
Resolve ==
    /\ pc = "resolve"
    /\ files_all' = resolve_loop(1, <<>>)
    /\ statsz' = [i \in Ids |-> os_stat(fs[argv[i]]).size]
    /\ pc' = "dedup"
    /\ UNCHANGED <<argv, opts, fs, fs0, files, memo, stream, cur, workers, outq,
                   emitted, stdout, unlinked, lastcmp, seqOut, log>>

(* main, lines 238-251: the set, its iteration order, the filtered pairs.
   A comparison inside set() that returns runs both generators to their end,
   so the candidates set() traversed are those it memoized. *)
DedupTo(b) ==
    /\ memo' = b.memo
    /\ log' = [log EXCEPT
                  !.reads = [i \in DOMAIN log.reads |->
                      log.reads[i] + (IF b.memo[i].mapset /\ ~memo[i].mapset THEN 1 ELSE 0)],
                  !.exc = IF b.err # "none" THEN b.err ELSE @]
    /\ IF b.err # "none"
       THEN pc' = "crashed" /\ UNCHANGED <<files, stream>>
       ELSE /\ pc' = "match"
            /\ \E o \in Orders(b.kept) :
                  /\ files' = o
                  /\ stream' = filter(pairs(o), opts.name_match)
Dedup ==
    /\ pc = "dedup"
    /\ DedupTo(set_build(files_all, <<>>, memo))
    /\ UNCHANGED <<argv, opts, fs, fs0, files_all, statsz, cur, workers, outq,
                   emitted, stdout, unlinked, lastcmp, seqOut>>

(* _matches with pool=None: _eq(pair) up to the end of the hashing loop *)
SeqHashTo(pair, hp) ==
    /\ memo' = [memo EXCEPT ![pair[1]] = hp.ma, ![pair[2]] = hp.mb]
    /\ log' = IF hp.out = "break"
              THEN LogOpen(log, pair, hp.opena, hp.openb)
              ELSE LogExc(LogEval(LogOpen(log, pair, hp.opena, hp.openb), pair), hp.out)
    /\ IF hp.out = "break"
       THEN cur' = Busy(pair, hp) /\ pc' = pc /\ Skip
       ELSE cur' = Idle /\ SeqAfterEq(pair, hp.out)
SeqHash ==
    /\ pc = "match" /\ opts.pool = 0 /\ ~cur.busy /\ stream # <<>>
    /\ stream' = Tail(stream)
    /\ SeqHashTo(Head(stream), HashOf(Head(stream), memo))
    /\ UNCHANGED <<argv, opts, fs0, files_all, files, statsz, workers, outq,
                   lastcmp, seqOut>>

(* _matches with pool=None: the rest of _eq(pair), then the yield *)
SeqCmpTo(pair, c) ==
    /\ memo' = [memo EXCEPT ![pair[1]] = c.ma, ![pair[2]] = c.mb]
    /\ log' = LogExc(LogEval(log, pair), c.ret)
    /\ SeqAfterEq(pair, c.ret)
SeqCmp ==
    /\ pc = "match" /\ opts.pool = 0 /\ cur.busy
    /\ cur' = Idle
    /\ SeqCmpTo(cur.pair, eq_cmp(cur.hp, fs[file(cur.pair[1])], fs[file(cur.pair[2])]))
    /\ UNCHANGED <<argv, opts, fs0, files_all, files, statsz, stream, workers, outq,
                   lastcmp, seqOut>>

SeqDone ==
    /\ pc = "match" /\ opts.pool = 0 /\ ~cur.busy /\ stream = <<>>
    /\ pc' = "done"
    /\ UNCHANGED <<argv, opts, fs, fs0, files_all, files, statsz, memo, stream, cur,
                   workers, outq, emitted, stdout, unlinked, lastcmp, seqOut, log>>

Result(pair, ret) == [pair |-> pair, equal |-> eq_equal(ret)]

(* an idle pool worker takes the next pair (a pickled copy of both
   candidates, so what it memoizes is lost) and runs _eq on it up to the end
   of the hashing loop.  Workers are interchangeable: the pool's state is the
   set of tasks its busy workers are in. *)
WorkerHashTo(pair, hp) ==
    /\ log' = IF hp.out = "break"
              THEN LogOpen(log, pair, hp.opena, hp.openb)
              ELSE LogEval(LogOpen(log, pair, hp.opena, hp.openb), pair)
    /\ IF hp.out = "break"
       THEN workers' = workers \cup {Task(pair, hp)} /\ outq' = outq
       ELSE workers' = workers /\ outq' = Append(outq, Result(pair, hp.out))
(* the pool can hand the next pair to a worker *)
CanDispatch ==
    /\ pc = "match" /\ opts.pool >= 1
    /\ Cardinality(workers) < opts.pool /\ stream # <<>>

(* a task handler that loses the pair that follows the one it dispatches *)
WorkerHashSkipping ==
    /\ CanDispatch
    /\ stream' = IF Len(stream) >= 2 THEN Tail(Tail(stream)) ELSE Tail(stream)
    /\ WorkerHashTo(Head(stream), HashOf(Head(stream), memo))
    /\ UNCHANGED <<argv, opts, fs, fs0, pc, files_all, files, statsz, memo, cur,
                   emitted, stdout, unlinked, lastcmp, seqOut>>

WorkerHash ==
    /\ CanDispatch
    /\ stream' = Tail(stream)
    /\ WorkerHashTo(Head(stream), HashOf(Head(stream), memo))
    /\ UNCHANGED <<argv, opts, fs, fs0, pc, files_all, files, statsz, memo, cur,
                   emitted, stdout, unlinked, lastcmp, seqOut>>

(* a worker that prints the pair itself when it finds the two files equal *)
WorkerCmpWriting(t) ==
    /\ pc = "match" /\ opts.pool >= 1
    /\ t \in workers
    /\ workers' = workers \ {t}
    /\ log' = LogEval(log, t.pair)
    /\ outq' = Append(outq, Result(t.pair,
                  eq_cmp(t.hp, fs[file(t.pair[1])], fs[file(t.pair[2])]).ret))
    /\ stdout' = IF eq_cmp(t.hp, fs[file(t.pair[1])], fs[file(t.pair[2])]).ret = "True"
                 THEN Append(stdout, [kind |-> "pair", left |-> file(t.pair[1]),
                                      right |-> file(t.pair[2])])
                 ELSE stdout
    /\ UNCHANGED <<argv, opts, fs, fs0, pc, files_all, files, statsz, memo, stream, cur,
                   emitted, unlinked, lastcmp, seqOut>>

(* the worker in task t finishes _eq and sends (pair, equal) back *)
WorkerCmp(t) ==
    /\ pc = "match" /\ opts.pool >= 1
    /\ t \in workers
    /\ workers' = workers \ {t}
    /\ log' = LogEval(log, t.pair)
    /\ outq' = Append(outq, Result(t.pair,
                  eq_cmp(t.hp, fs[file(t.pair[1])], fs[file(t.pair[2])]).ret))
    /\ UNCHANGED <<argv, opts, fs, fs0, pc, files_all, files, statsz, memo, stream, cur,
                   emitted, stdout, unlinked, lastcmp, seqOut>>

(* the coordinator takes the next result of imap_unordered, lines 185-188;
   an exception raised in a worker is raised again here *)
ConsumeResult(r) ==
    /\ log' = LogExc(log, r.equal)
    /\ IF IsException(r.equal)
       THEN pc' = "crashed" /\ Skip
       ELSE /\ pc' = pc
            /\ IF pool_yields(r.pair, r.equal) THEN Yield(r.pair, r.equal) ELSE Skip
Consume ==
    /\ pc = "match" /\ opts.pool >= 1 /\ outq # <<>>
    /\ outq' = Tail(outq)
    /\ ConsumeResult(Head(outq))
    /\ UNCHANGED <<argv, opts, fs0, files_all, files, statsz, memo, stream, cur,
                   workers, lastcmp, seqOut>>

PoolDone ==
    /\ pc = "match" /\ opts.pool >= 1
    /\ stream = <<>> /\ outq = <<>> /\ workers = {}
    /\ pc' = "done"
    /\ UNCHANGED <<argv, opts, fs, fs0, files_all, files, statsz, memo, stream, cur,
                   workers, outq, emitted, stdout, unlinked, lastcmp, seqOut, log>>

---------------------------------------------------------------------------
(* Specifications *)

F0 == FullChunk(0)
F1 == FullChunk(1)
RunContents == {<<F0, F1>>, <<F1, F0>>, <<PartChunk(0)>>}

OptSets == [pool : 0..PoolMax, name_match : BOOLEAN,
            delete_prefix : Prefixes \cup {NoPrefix}, delete : BOOLEAN]

InitRun(Options, FileStates) ==
    /\ argv \in [1..NumArgs -> Paths]
    /\ opts \in Options
    /\ fs \in [Paths -> FileStates \cup {NoFile}]
    /\ \A p \in Paths : p \notin Range(argv) => fs[p] = NoFile
    /\ pc = "resolve"
    /\ fs0 = fs
    /\ files_all = <<>>
    /\ files = <<>>
    /\ statsz = [i \in 1..NumArgs |-> 0]
    /\ memo = [i \in 1..NumArgs |-> NoMemo]
    /\ stream = <<>>
    /\ cur = Idle
    /\ workers = {}
    /\ outq = <<>>
    /\ emitted = <<>>
    /\ stdout = <<>>
    /\ unlinked = <<>>
    /\ lastcmp = NoCmp
    /\ seqOut = <<>>
    /\ log = NoLog

Init == InitRun({o \in OptSets : ~o.name_match},
                {RegFile(c) : c \in RunContents} \cup {Denied})

Next ==
    \/ Resolve
    \/ Dedup
    \/ SeqHash
    \/ SeqCmp
    \/ SeqDone
    \/ WorkerHash
    \/ \E t \in workers : WorkerCmp(t)
    \/ Consume
    \/ PoolDone

Spec == Init /\ [][Next]_vars

(* a file of the input disappears while main runs (another process unlinks it) *)
MaxRemovals == 1

ExternallyRemoved == {p \in Paths : fs0[p].kind = "file" /\ fs[p].kind = "none"
                                    /\ p \notin Range(unlinked)}

ExternalRemove(p) ==
    /\ pc \in {"dedup", "match"}
    /\ p \in Range(argv) /\ fs[p].kind = "file"
    /\ Cardinality(ExternallyRemoved) < MaxRemovals
    /\ fs' = [fs EXCEPT ![p] = NoFile]
    /\ UNCHANGED <<argv, opts, fs0, pc, files_all, files, statsz, memo, stream, cur,
                   workers, outq, emitted, stdout, unlinked, lastcmp, seqOut, log>>

InitVanish == InitRun({o \in OptSets : ~o.name_match /\ (o.delete <=> o.delete_prefix # NoPrefix)},
                      {RegFile(c) : c \in RunContents})

NextVanish == Next \/ \E p \in Paths : ExternalRemove(p)

SpecVanish == InitVanish /\ [][NextVanish]_vars

(* _matches(pairs) and then _matches(pairs, pool) over the same candidate set *)
Rerun(n) ==
    /\ pc = "done" /\ opts.pool = 0
    /\ n \in 1..PoolMax
    /\ opts' = [opts EXCEPT !.pool = n]
    /\ seqOut' = emitted
    /\ emitted' = <<>>
    /\ stream' = filter(pairs(files), opts.name_match)
    /\ pc' = "match"
    /\ UNCHANGED <<argv, fs, fs0, files_all, files, statsz, memo, cur, workers, outq,
                   stdout, unlinked, lastcmp, log>>

InitEquiv == InitRun({o \in OptSets : o.pool = 0 /\ o.delete_prefix = NoPrefix /\ ~o.delete},
                     {RegFile(c) : c \in RunContents})

NextEquiv == Next \/ \E n \in 1..PoolMax : Rerun(n)

SpecEquiv == InitEquiv /\ [][NextEquiv]_vars

(* a == b on two resolved candidates, any contents, each either not hashed yet
   or memoized by an earlier complete traversal; called again and again *)
EqCallTo(a, b, r) ==
    /\ memo' = [memo EXCEPT ![a] = r.ma, ![b] = r.mb]
    /\ lastcmp' = [set |-> TRUE, a |-> a, b |-> b, res |-> r,
                   ma0 |-> memo[a], mb0 |-> memo[b]]
EqCall(a, b) ==
    /\ pc = "eq"
    /\ a # b
    /\ EqCallTo(a, b, File_eq(statsz[a], statsz[b], memo[a], memo[b],
                              fs[file(a)], fs[file(b)]))
    /\ UNCHANGED <<argv, opts, fs, fs0, pc, files_all, files, statsz, stream, cur,
                   workers, outq, emitted, stdout, unlinked, seqOut, log>>

InitEq ==
    /\ argv = <<PathA, PathC>>
    /\ opts = [pool |-> 0, name_match |-> FALSE, delete_prefix |-> NoPrefix, delete |-> FALSE]
    /\ \E ca \in Contents, cb \in Contents :
          fs = [p \in Paths |-> IF p = PathA THEN RegFile(ca)
                                ELSE IF p = PathC THEN RegFile(cb) ELSE NoFile]
    /\ fs0 = fs
    /\ pc = "eq"
    /\ files_all = <<1, 2>>
    /\ files = <<1, 2>>
    /\ statsz = [i \in 1..2 |-> os_stat(fs[argv[i]]).size]
    /\ \E hashed \in [1..2 -> BOOLEAN] :
          memo = [i \in 1..2 |-> IF hashed[i]
                                 THEN memoize(NoMemo, stepxxhash(NoMemo, fs[argv[i]]))
                                 ELSE NoMemo]
    /\ stream = <<>>
    /\ cur = Idle
    /\ workers = {}
    /\ outq = <<>>
    /\ emitted = <<>>
    /\ stdout = <<>>
    /\ unlinked = <<>>
    /\ lastcmp = NoCmp
    /\ seqOut = <<>>
    /\ log = NoLog

NextEq == \E a \in 1..2, b \in 1..2 : EqCall(a, b)

SpecEq == InitEq /\ [][NextEq]_vars

(* a file of the input grows while main runs (another process appends a
   block to it) *)
MaxGrowths == 1

ExternallyGrown == {p \in Paths : fs[p].kind = "file" /\ fs0[p].kind = "file"
                                  /\ fs[p] # fs0[p]}

ExternalGrow(p) ==
    /\ pc \in {"dedup", "match"}
    /\ p \in Range(argv) /\ fs[p].kind = "file"
    /\ fs[p].data # <<>> /\ fs[p].data[Len(fs[p].data)].len = BlockSize
    /\ p \notin ExternallyGrown
    /\ Cardinality(ExternallyGrown) < MaxGrowths
    /\ fs' = [fs EXCEPT ![p] = RegFile(Append(fs[p].data, F0))]
    /\ UNCHANGED <<argv, opts, fs0, pc, files_all, files, statsz, memo, stream, cur,
                   workers, outq, emitted, stdout, unlinked, lastcmp, seqOut, log>>

InitGrow == InitRun({o \in OptSets : ~o.name_match /\ o.delete_prefix = NoPrefix /\ ~o.delete},
                    {RegFile(c) : c \in RunContents})

NextGrow == Next \/ \E p \in Paths : ExternalGrow(p)

SpecGrow == InitGrow /\ [][NextGrow]_vars

(* pool mode alone *)
InitPool == InitRun({o \in OptSets : o.pool >= 1 /\ ~o.name_match
                                     /\ o.delete_prefix = NoPrefix /\ ~o.delete},
                    {RegFile(c) : c \in RunContents})

NextPool ==
    \/ Resolve
    \/ Dedup
    \/ WorkerHash
    \/ \E t \in workers : WorkerCmp(t)
    \/ Consume
    \/ PoolDone

(* _init_worker, lines 171-172: the disposition of SIGINT in a pool worker,
   and what a worker with that disposition sends back when the signal comes *)
init_worker == "SIG_IGN"
worker_on_sigint(disposition, q, ws) ==
    IF disposition = "SIG_IGN" THEN q
    ELSE q \o [k \in 1..Cardinality(ws) |-> [pair |-> <<0, 0>>, equal |-> "KeyboardInterrupt"]]

(* the user's interrupt while the coordinator is inside the generator _matches,
   waiting for the next result: lines 192-195 terminate the pool and raise
   SystemExit *)
InterruptWaiting ==
    /\ pc = "match" /\ opts.pool >= 1
    /\ outq' = worker_on_sigint(init_worker, outq, workers)
    /\ workers' = {}
    /\ pc' = "aborted"
    /\ log' = [log EXCEPT !.exc = "SystemExit"]
    /\ UNCHANGED <<argv, opts, fs, fs0, files_all, files, statsz, memo, stream, cur,
                   emitted, stdout, unlinked, lastcmp, seqOut>>

(* the user's interrupt while main runs its loop body (lines 255-268) on the
   pair _matches has just yielded: KeyboardInterrupt is raised in main, outside
   the try of _matches; the body was interrupted before or after its effect.
   The pool is terminated when the generator is finalized. *)
InterruptBodyAt(r, done) ==
    /\ emitted' = Append(emitted, r)
    /\ IF done THEN SetWorld(main_body(r.pair, World(fs, stdout, unlinked)))
               ELSE UNCHANGED <<fs, stdout, unlinked>>
InterruptBody ==
    /\ pc = "match" /\ opts.pool >= 1
    /\ outq # <<>> /\ ~IsException(Head(outq).equal)
    /\ pool_yields(Head(outq).pair, Head(outq).equal)
    /\ \E done \in BOOLEAN : InterruptBodyAt(Head(outq), done)
    /\ outq' = worker_on_sigint(init_worker, Tail(outq), workers)
    /\ workers' = {}
    /\ pc' = "crashed"
    /\ log' = [log EXCEPT !.exc = "KeyboardInterrupt"]
    /\ UNCHANGED <<argv, opts, fs0, files_all, files, statsz, memo, stream, cur,
                   lastcmp, seqOut>>

(* once _matches runs, the pool's task handler, its workers and the
   coordinator are all scheduled by the system: a step of any of them that
   stays possible is eventually taken.  Dispatch is the step WorkerHash seen
   on the pair stream alone: WorkerHash is possible exactly when CanDispatch
   holds, and it is the only step of the pool that shortens the stream. *)
Dispatch == CanDispatch /\ stream' = Tail(stream)
FairPool ==
    /\ WF_stream(Dispatch)
    /\ WF_vars(\E t \in workers : WorkerCmp(t))
    /\ WF_vars(Consume)
    /\ WF_vars(PoolDone)

SpecPoolLive == InitPool /\ [][NextPool]_vars /\ FairPool

NextInterrupt == NextPool \/ InterruptWaiting \/ InterruptBody

SpecInterrupt == InitPool /\ [][NextInterrupt]_vars

---------------------------------------------------------------------------
(* Properties *)

PairsOf(out) == {out[k].pair : k \in DOMAIN out}
UnderPrefix(i) == startswith(file(i), opts.delete_prefix)

(* C1: every pair _matches emits, in sequential and in pool mode, is a pair
   for which the comparison returned true; a pair whose comparison returned
   false or was undetermined is never emitted. *)
C1_EmitsOnlyEqual == \A k \in DOMAIN emitted : emitted[k].equal = "True"

(* the same, for pool mode alone *)
PoolEmitsOnlyEqual == opts.pool >= 1 => C1_EmitsOnlyEqual

(* p is a side of an emitted pair that compared equal and whose other side
   is not under the prefix *)
UnlinkJustified(p) ==
    \E k \in DOMAIN emitted : \E s \in 1..2 :
        /\ emitted[k].equal = "True"
        /\ file(emitted[k].pair[s]) = p
        /\ ~UnderPrefix(emitted[k].pair[3 - s])
ContentKept(i) == \E p \in Paths : fs[p] = fs0[file(i)]

(* C2: a file is unlinked only if it was verified byte-identical to another
   candidate whose path does not start with the prefix; so when the run ends
   every content the candidates held at the start is still held by a file. *)
C2_ContentSurvives ==
    /\ \A k \in DOMAIN unlinked : UnlinkJustified(unlinked[k])
    /\ pc = "done" => \A k \in DOMAIN files_all : ContentKept(files_all[k])

(* the same, for pool mode alone *)
PoolContentSurvives == opts.pool >= 1 => C2_ContentSurvives

(* a step in which main calls _unlink_if_prefix on the pair just emitted *)
Invoked == Len(emitted') = Len(emitted) + 1 /\ opts.delete_prefix # NoPrefix
NewRecords == {stdout'[k] : k \in (Len(stdout) + 1)..Len(stdout')}
Reported(p) == \E r \in NewRecords : r.kind = "unlink" /\ r.left = p
Asymmetric(s, o) == startswith(s, opts.delete_prefix) /\ ~startswith(o, opts.delete_prefix)
SideRule(s, o) ==
    /\ Reported(s) <=> Asymmetric(s, o)
    /\ fs'[s] # fs[s] <=> (Asymmetric(s, o) /\ opts.delete /\ fs[s].kind = "file")
    /\ fs'[s] # fs[s] => fs'[s] = NoFile /\ unlinked' = Append(unlinked, s)
C3_Invocation ==
    Invoked =>
        /\ SideRule(file(emitted'[Len(emitted')].pair[1]), file(emitted'[Len(emitted')].pair[2]))
        /\ SideRule(file(emitted'[Len(emitted')].pair[2]), file(emitted'[Len(emitted')].pair[1]))
        /\ \A r \in NewRecords : r.kind = "unlink"
        /\ Len(stdout') <= Len(stdout) + 1
        /\ Cardinality({p \in Paths : fs'[p] # fs[p]}) <= 1
        /\ \A p \in Paths : fs'[p] # fs[p] => Reported(p)

(* C3: one invocation of _unlink_if_prefix on an emitted pair reports a side
   (and, with deletion enabled, unlinks it) exactly when that side's path
   starts with the prefix and the other side's does not; when both or neither
   start with it nothing is reported and nothing is unlinked; at most one
   side is removed. *)
C3_UnlinkIffAsymmetric == [][C3_Invocation]_vars

C3_Witness ==
    /\ opts.delete
    /\ unlinked # <<>>
    /\ \E k \in DOMAIN emitted :
          UnderPrefix(emitted[k].pair[1]) /\ UnderPrefix(emitted[k].pair[2])
    /\ \E k \in DOMAIN emitted :
          ~UnderPrefix(emitted[k].pair[1]) /\ UnderPrefix(emitted[k].pair[2])

(* C4: over the same candidate set and stable contents, the set of pairs the
   sequential pass emitted equals the set the pool pass emits, for every pool
   size and completion order. *)
C4_SameSet ==
    (pc = "done" /\ opts.pool >= 1) => PairsOf(seqOut) = PairsOf(emitted)

CmpA == file(lastcmp.a)
CmpB == file(lastcmp.b)

(* C5: on stable files a == b returns true exactly when the two files hold
   the same bytes; it returns a boolean, and a digest collision between
   different files of one size still compares not-equal. *)
C5_EqIffIdentical ==
    lastcmp.set =>
        /\ lastcmp.res.ret \in {"True", "False"}
        /\ lastcmp.res.ret = "True" <=> fs[CmpA].data = fs[CmpB].data

C5_Witness ==
    /\ lastcmp.set
    /\ statsz[lastcmp.a] = statsz[lastcmp.b]
    /\ hash_whole(fs[CmpA].data) = hash_whole(fs[CmpB].data)
    /\ fs[CmpA].data # fs[CmpB].data
    /\ lastcmp.res.cmp
    /\ lastcmp.res.ret = "False"

(* the rounds at which the two checkpoint sequences carry different digests,
   and the number of chunks read when the first of them is reached *)
Diverging(La, Lb) == {r \in 1..Min(Len(La), Len(Lb)) : La[r].step.digest # Lb[r].step.digest}
FirstOf(S) == CHOOSE r \in S : \A q \in S : r <= q
ReadLimit(La, Lb) ==
    IF Diverging(La, Lb) = {} THEN Len(La) ELSE La[FirstOf(Diverging(La, Lb))].pos

(* C6: in the lock-step comparison of two same-size candidates the first
   round whose checkpoint digests differ ends the comparison: neither file is
   read past the chunk of that checkpoint. *)
C6_EarlyExit ==
    (lastcmp.set /\ statsz[lastcmp.a] = statsz[lastcmp.b]) =>
        /\ lastcmp.res.ra <= ReadLimit(stephash(fs[CmpA].data), stephash(fs[CmpB].data))
        /\ lastcmp.res.rb <= ReadLimit(stephash(fs[CmpA].data), stephash(fs[CmpB].data))

(* C7: when the memoized sizes differ, a == b is false, neither file is
   opened or read, and no memoized hash field of either candidate changes. *)
C7_SizeShortcut ==
    (lastcmp.set /\ statsz[lastcmp.a] # statsz[lastcmp.b]) =>
        /\ lastcmp.res.ret = "False"
        /\ lastcmp.res.ra = 0 /\ lastcmp.res.rb = 0
        /\ ~lastcmp.res.opena /\ ~lastcmp.res.openb /\ ~lastcmp.res.cmp
        /\ lastcmp.res.ma = lastcmp.ma0 /\ lastcmp.res.mb = lastcmp.mb0
        /\ memo[lastcmp.a] = lastcmp.ma0 /\ memo[lastcmp.b] = lastcmp.mb0

C7_Witness ==
    /\ lastcmp.set
    /\ statsz[lastcmp.a] # statsz[lastcmp.b]
    /\ lastcmp.ma0.mapset /\ ~lastcmp.mb0.mapset
    /\ lastcmp.res.ret = "False"

(* C8: a pair one of whose files vanished after resolution, so that its
   comparison was undetermined, is not emitted (and triggers no deletion). *)
C8_VanishedNotEmitted == \A k \in DOMAIN emitted : emitted[k].equal # "None"

(* the same, for pool mode alone *)
PoolVanishedNotEmitted == opts.pool >= 1 => C8_VanishedNotEmitted

StatOk(i) == fs0[argv[i]].kind = "file"

(* C9: the working set is exactly the input paths whose metadata query
   succeeded, in input order; a failed query stops nothing, and pairing runs
   over the resolved candidates only. *)
C9_WorkingSet ==
    pc # "resolve" =>
        /\ files_all = SelectSeq([i \in 1..Len(argv) |-> i], StatOk)
        /\ pc # "crashed"
        /\ Range(files) \subseteq Range(files_all)
        /\ \A pair \in Range(stream) \cup PairsOf(emitted) :
              pair[1] \in Range(files_all) /\ pair[2] \in Range(files_all)

C9_Witness ==
    /\ pc = "done"
    /\ \E i \in DOMAIN argv : fs0[argv[i]].kind = "none"
    /\ Len(files_all) = 2
    /\ emitted # <<>>

(* C10: the candidate set holds exactly one member per distinct path string
   of the resolved candidates: equal strings collapse, different strings are
   both kept whatever their hashes and contents. *)
C10_DedupByPath ==
    pc \in {"match", "done"} =>
        /\ \A k \in DOMAIN files_all : \E j \in DOMAIN files :
              file(files[j]) = file(files_all[k])
        /\ \A j, k \in DOMAIN files : j # k => file(files[j]) # file(files[k])

(* ps holds every unordered pair of two different members of fl exactly once *)
Swapped(pair) == <<pair[2], pair[1]>>
EachPairOnce(ps, fl) ==
    /\ 2 * Len(ps) = Len(fl) * (Len(fl) - 1)
    /\ \A k \in DOMAIN ps :
          /\ ps[k][1] \in Range(fl) /\ ps[k][2] \in Range(fl)
          /\ ps[k][1] # ps[k][2]
          /\ \A j \in DOMAIN ps : j # k => ps[j] # ps[k] /\ ps[j] # Swapped(ps[k])
    /\ \A x, y \in Range(fl) :
          x # y => \E k \in DOMAIN ps : ps[k] = <<x, y>> \/ ps[k] = <<y, x>>

(* C11: over the n unique candidates of the set, _pairs yields every unordered
   pair of two different candidates exactly once: n*(n-1)/2 pairs, none of a
   candidate with itself, none repeated with its sides swapped. *)
C11_AllPairsOnce ==
    pc \in {"match", "done"} =>
        /\ Cardinality(Range(files)) = Len(files)
        /\ EachPairOnce(pairs(files), files)

C11_Witness ==
    /\ pc = "match"
    /\ Len(files) = NumArgs
    /\ stream = pairs(files)
    /\ 2 * Len(stream) = NumArgs * (NumArgs - 1)

Interrupted == log.exc \in {"SystemExit", "KeyboardInterrupt"}

(* C12: an interrupt that arrives while the pool is active, whether the
   coordinator waits for a result or processes an emitted pair, is answered
   by no worker, ends every in-flight worker, and ends the run with
   SystemExit, never with an unhandled KeyboardInterrupt. *)
C12_ControlledAbort ==
    Interrupted =>
        /\ log.exc = "SystemExit" /\ pc = "aborted"
        /\ workers = {}
        /\ \A k \in DOMAIN outq : outq[k].equal # "KeyboardInterrupt"

(* the part of C12 that the code keeps: no worker answers the interrupt and
   none is left running *)
InterruptStopsWorkers ==
    Interrupted =>
        /\ workers = {}
        /\ \A k \in DOMAIN outq : outq[k].equal # "KeyboardInterrupt"

(* an interrupt while the coordinator waits is a controlled abort *)
InterruptWhileWaiting == pc = "aborted" => log.exc = "SystemExit"

Filtered == Range(filter(pairs(files), opts.name_match))
EvaluatedOnce ==
    \A p \in DOMAIN log.evals : log.evals[p] = (IF p \in Filtered THEN 1 ELSE 0)

(* C13: in pool mode, with a finite pair stream and no interrupt, no pair is
   ever evaluated twice, and the run eventually terminates with every filtered
   pair (and no other) evaluated by _eq exactly once, for every pool size and
   interleaving of the workers. *)
C13_EvaluatedExactlyOnce ==
    /\ [](\A p \in DOMAIN log.evals : log.evals[p] <= 1)
    /\ pc = "match" ~> (pc = "done" /\ workers = {} /\ outq = <<>> /\ EvaluatedOnce)

C13_Witness ==
    /\ pc = "done"
    /\ opts.pool = PoolMax
    /\ Len(files) = NumArgs
    /\ EvaluatedOnce
    /\ emitted # <<>>

(* p is under the prefix and is a side of an emitted pair whose other side is not *)
AsymmetricSide(p) ==
    /\ startswith(p, opts.delete_prefix)
    /\ \E k \in DOMAIN emitted : \E sd \in 1..2 :
          /\ file(emitted[k].pair[sd]) = p
          /\ ~UnderPrefix(emitted[k].pair[3 - sd])

(* C14: the file system changes only by the unlinking of a file for which the
   asymmetric-prefix condition holds while deletion is enabled; with no
   delete prefix, or with a prefix but without --delete, every file and its
   content are what they were at the start (paths may still be reported). *)
C14_OnlyUnlinkMutates ==
    /\ (opts.delete_prefix = NoPrefix \/ ~opts.delete) => fs = fs0
    /\ \A p \in Paths :
          fs[p] # fs0[p] => /\ fs[p] = NoFile
                            /\ p \in Range(unlinked)
                            /\ AsymmetricSide(p)

C14_Witness ==
    /\ pc = "done"
    /\ opts.delete_prefix # NoPrefix /\ ~opts.delete
    /\ \E k \in DOMAIN stdout : stdout[k].kind = "unlink"
    /\ fs = fs0

(* the checkpoint records _stephash yields for the file at path p *)
Checkpoints(p) == StepsOf(stephash(fs[p].data))
IterationsIncrease(cs) ==
    \A k \in 1..(Len(cs) - 1) : cs[k].iteration < cs[k + 1].iteration
FinalIsLast(cs, data) ==
    /\ Len(cs) >= 1
    /\ \A k \in DOMAIN cs : cs[k].final = 1 <=> k = Len(cs)
    /\ cs[Len(cs)].digest = hash_whole(data)

(* C15: for every file the records of _stephash have strictly increasing
   `iteration` values, and the last record is the only one flagged final and
   carries the digest of the complete stream. *)
C15_CheckpointSequence ==
    lastcmp.set =>
        \A p \in {CmpA, CmpB} :
            /\ IterationsIncrease(Checkpoints(p))
            /\ FinalIsLast(Checkpoints(p), fs[p].data)

(* the part of C15 that the code keeps *)
FinalCheckpointIsLast ==
    lastcmp.set =>
        \A p \in {CmpA, CmpB} : FinalIsLast(Checkpoints(p), fs[p].data)

(* C16: within one run, in sequential and in pool mode, the file of a
   candidate is read through the incremental hasher at most once, however
   many same-size candidates it is compared with. *)
C16_HashedAtMostOnce == \A i \in DOMAIN log.reads : log.reads[i] <= 1

(* the same, for sequential mode alone *)
SeqHashedAtMostOnce == opts.pool = 0 => C16_HashedAtMostOnce

(* the sizes memoized for the pair are equal, both files are there, and their
   checkpoint sequences end on different rounds *)
RoundsOf(i) == Len(stepxxhash(memo[i], fs[file(i)]).gen)
MismatchedRounds(pair) ==
    /\ statsz[pair[1]] = statsz[pair[2]]
    /\ fs[file(pair[1])].kind = "file" /\ fs[file(pair[2])].kind = "file"
    /\ RoundsOf(pair[1]) # RoundsOf(pair[2])
Taken == stream # <<>> /\ stream' = Tail(stream)
Surfaced == pc' = "crashed" /\ log'.exc = "AssertionError"
NothingEmitted == emitted' = emitted /\ stdout' = stdout /\ fs' = fs
MemoSound ==
    \A i \in DOMAIN memo' :
        \/ memo'[i] = memo[i]
        \/ memo'[i] = memoize(NoMemo, stepxxhash(NoMemo, fs[file(i)]))
C17_Comparison ==
    /\ (pc = "match" /\ opts.pool = 0 /\ Taken /\ MismatchedRounds(Head(stream)))
          => Surfaced /\ NothingEmitted /\ MemoSound
    /\ (pc = "match" /\ opts.pool >= 1 /\ Taken /\ MismatchedRounds(Head(stream)))
          => /\ outq' = Append(outq, [pair |-> Head(stream), equal |-> "AssertionError"])
             /\ NothingEmitted /\ memo' = memo
    /\ (pc = "match" /\ opts.pool >= 1 /\ outq # <<>> /\ outq' = Tail(outq)
           /\ Head(outq).equal = "AssertionError")
          => Surfaced /\ NothingEmitted /\ memo' = memo

(* C17: when two candidates of equal memoized size yield checkpoint sequences
   that end on different rounds, the comparison returns neither equal nor
   not-equal: AssertionError leaves __eq__, _eq and main (in pool mode through
   the result the coordinator takes), nothing is emitted for the pair, what
   was emitted stays, and no memo field holds anything but the records of the
   file it was read from. *)
C17_AssertionSurfaces ==
    /\ [][C17_Comparison]_vars
    /\ [](\A k \in DOMAIN emitted : emitted[k].equal # "AssertionError")
    /\ [](log.exc = "AssertionError" => pc = "crashed")

C17_Witness ==
    /\ pc = "crashed"
    /\ log.exc = "AssertionError"
    /\ opts.pool >= 1
    /\ emitted # <<>>

(* the same end in sequential mode *)
SeqAssertionReached ==
    ~(pc = "crashed" /\ log.exc = "AssertionError" /\ opts.pool = 0 /\ emitted # <<>>)

(* the side of the pair emitted in this step that the policy selects *)
Selected(p) ==
    \E sd \in 1..2 :
        /\ p = file(emitted'[Len(emitted')].pair[sd])
        /\ Asymmetric(p, file(emitted'[Len(emitted')].pair[3 - sd]))
C18_Unlink ==
    (Invoked /\ opts.delete) =>
        \A p \in Paths :
            (Selected(p) /\ fs[p].kind # "file") =>
                /\ fs' = fs /\ unlinked' = unlinked
                /\ Reported(p)
                /\ pc' = "match" /\ log'.exc = "none"

(* C18: with deletion enabled, when the file selected for removal is already
   gone at unlink time the error is tolerated: the path is reported, no file
   is unlinked in its place, no exception leaves main and the run goes on. *)
C18_GoneTolerated == [][C18_Unlink]_vars

(* the target was removed for an earlier pair holding the same path, and
   another pair was processed after the failed unlink *)
C18_Witness ==
    /\ pc = "done"
    /\ opts.delete
    /\ Len(unlinked) = 1
    /\ \E j, k \in DOMAIN stdout :
          /\ j < k /\ k < Len(emitted)
          /\ stdout[j].left = stdout[k].left
          /\ stdout[j].left \in Range(unlinked)

(* the target was removed by another process between the comparison and the
   unlink: it is reported and was never unlinked by the run *)
GoneByOtherProcess ==
    /\ pc = "done"
    /\ opts.delete /\ opts.pool >= 1
    /\ \E k \in DOMAIN stdout :
          stdout[k].kind = "unlink" /\ stdout[k].left \notin Range(unlinked)

(* `out` is `ps` without the pairs whose sides have different basenames, in
   the order of `ps` *)
RECURSIVE SameNamesOf(_)
SameNamesOf(ps) ==
    IF ps = <<>> THEN <<>>
    ELSE IF basename(file(Head(ps)[1])) = basename(file(Head(ps)[2]))
         THEN <<Head(ps)>> \o SameNamesOf(Tail(ps))
         ELSE SameNamesOf(Tail(ps))
Filtering == pc' = "match" /\ (pc = "dedup" \/ pc = "done")
C19_Filter ==
    Filtering =>
        /\ opts'.name_match => stream' = SameNamesOf(pairs(files'))
        /\ ~opts'.name_match => stream' = pairs(files')
        /\ pc = "done" => (fs' = fs /\ memo' = memo /\ log'.reads = log.reads)

(* C19: with name matching requested _filter retains a pair exactly when the
   basenames of its two paths are identical, without it every pair is
   retained; the retained pairs keep the order of the input, and filtering
   reads and hashes no file. *)
C19_FilterByBasename == [][C19_Filter]_vars

C19_Witness ==
    /\ pc = "match"
    /\ opts.name_match
    /\ Len(files) = NumArgs
    /\ stream # <<>>
    /\ Len(stream) < Len(pairs(files))
    /\ emitted = <<>> /\ ~cur.busy

---------------------------------------------------------------------------
(* Output in parallel mode *)

(* a step of a pool worker: a pair leaves the stream or a task ends *)
WorkerStep == pc = "match" /\ (stream' # stream \/ workers' # workers)
(* a step of the coordinator: it takes one result from the pool *)
CoordinatorStep ==
    /\ pc = "match" /\ outq # <<>> /\ outq' = Tail(outq)
    /\ workers' = workers /\ stream' = stream
(* the whole records main can write for one match *)
RecordsOf(pair) ==
    IF opts.delete_prefix = NoPrefix
    THEN {[kind |-> "pair", left |-> file(pair[1]), right |-> file(pair[2])]}
    ELSE {[kind |-> "unlink", left |-> file(pair[i]), right |-> <<>>] : i \in 1..2}
OneWholeRecord(pair) ==
    \E r \in RecordsOf(pair) :
        /\ stdout' = Append(stdout, r)
        /\ \A p \in Paths : fs'[p] # fs[p] => p = r.left /\ r.kind = "unlink"
        /\ unlinked' \in {unlinked, Append(unlinked, r.left)}
C20_Step ==
    opts.pool >= 1 =>
        /\ WorkerStep => UNCHANGED <<stdout, fs, unlinked>>
        /\ (stdout' # stdout \/ fs' # fs \/ unlinked' # unlinked) =>
               CoordinatorStep /\ OneWholeRecord(Head(outq).pair)

(* C20: in parallel mode every change of the output or of the file system is
   made by the coordinator while it handles one result, and it appends
   exactly one whole record (a result pair or a deletion notice) for that
   result; for every interleaving of the workers, no step of a worker writes
   to the output or unlinks a file. *)
C20_WholeRecords == [][C20_Step]_vars

(* a record has been written while a worker is still comparing and another
   result is waiting *)
C20_Witness ==
    /\ opts.pool >= 2
    /\ pc = "match"
    /\ stdout # <<>>
    /\ workers # {}


====
